---- MODULE Spec2Model ----
(***************************************************************************)
(* The Graphite backend of slo-generator                                   *)
(* (src/slo_generator/backends/graphite.py): GraphiteBackend.threshold,    *)
(* query, count, count_threshold and GraphiteClient.request.               *)
(*                                                                         *)
(* A JSON number n is Num(n) and JSON null is None.  A Python call ends    *)
(* with Return(v) or with Raise(e), e the name of the exception class.     *)
(***************************************************************************)
EXTENDS Integers, Sequences, FiniteSets, TLC

\* ------------------------------------------------------------------ bounds
\* A response of the render API holds at most MaxSeries series ...
MaxSeries == 2
\* ... and at most MaxPoints samples, all series together.
MaxPoints == 4
\* A body the HTTP server answers with holds at most MaxBodyPoints samples.
MaxBodyPoints == 1

\* ------------------------------------------------------------ JSON, results
None == [t |-> "None"]
Num(n) == [t |-> "num", v |-> n]

NO_DATA == 0 - 1

Return(v) == [kind |-> "return", value |-> v]
Raise(e) == [kind |-> "raise", exc |-> e]
NoOutcome == [kind |-> "none"]

RECURSIVE SeqsOfLen(_, _)
SeqsOfLen(S, n) ==
    IF n = 0 THEN {<<>>}
    ELSE LET shorter == SeqsOfLen(S, n - 1)
         IN  {<<e>> \o s : e \in S, s \in shorter}

\* --------------------------------------------- inputs of count_threshold
Thresholds == {50}
Values == {10, 50, 60}

\* A sample is [value, timestamp]; the empty sample [] is the malformed one.
Points == {<<>>} \cup {<<v, 1612257900>> : v \in {None} \cup {Num(n) : n \in Values}}

\* The shape of a list of containers is the list of their sizes, the size
\* of a container that lacks its field being -1: the shapes of at most
\* MaxSeries containers that hold at most n elements together.
RECURSIVE Held(_)
Held(shape) ==
    IF Len(shape) = 0 THEN 0
    ELSE (IF shape[1] > 0 THEN shape[1] ELSE 0) + Held(Tail(shape))

Shapes(n) ==
    UNION {{shape \in [1..k -> (0 - 1)..n] : Held(shape) <= n} : k \in 0..MaxSeries}

\* The series with n samples; the series of size -1 lacks 'datapoints'.
SeriesWith(n) ==
    IF n < 0 THEN {[target |-> "a.b.c"]}
    ELSE {[target |-> "a.b.c", datapoints |-> d] : d \in SeqsOfLen(Points, n)}

\* The responses of a shape.
RECURSIVE ResponsesOf(_)
ResponsesOf(shape) ==
    IF Len(shape) = 0 THEN {<<>>}
    ELSE LET first == SeriesWith(shape[1])
             rest == ResponsesOf(Tail(shape))
         IN  {<<s>> \o r : s \in first, r \in rest}

\* ------------------------------------------------------- count_threshold
\* The locals of count_threshold as the try body starts: below and above
\* are not bound before the first pass of the while loop.
count_threshold_entry(response) ==
    [response |-> response, x |-> Len(response), target |-> 0,
     bound |-> FALSE, below |-> <<>>, above |-> <<>>, exc |-> "none"]

\* classify with the comparison made strict.
classify_strict(value, threshold, below, above) ==
    IF value < threshold
    THEN [below |-> Append(below, value), above |-> above]
    ELSE [below |-> below, above |-> Append(above, value)]

\* One pass of the body of the for loop, once value is known to be present.
classify(value, threshold, below, above) ==
    IF value <= threshold
    THEN [below |-> Append(below, value), above |-> above]
    ELSE [below |-> below, above |-> Append(above, value)]

\* for point in datapoints, from the i-th sample on.
RECURSIVE for_point(_, _, _, _, _)
for_point(datapoints, i, threshold, below, above) ==
    IF i > Len(datapoints)
    THEN [exc |-> "none", below |-> below, above |-> above]
    ELSE LET point == datapoints[i] IN
         IF Len(point) = 0
         THEN [exc |-> "IndexError", below |-> below, above |-> above]
         ELSE LET value == point[1] IN
              IF value # None
              THEN LET b == classify(value.v, threshold, below, above) IN
                   for_point(datapoints, i + 1, threshold, b.below, b.above)
              ELSE for_point(datapoints, i + 1, threshold, below, above)

\* while (target < x): the locals when the loop is left, normally or by an
\* exception (exc).  Python counts from 0, a TLA+ sequence from 1.
RECURSIVE while_target(_, _)
while_target(env, threshold) ==
    IF ~(env.target < env.x)
    THEN env
    ELSE LET series == env.response[env.target + 1] IN
         IF "datapoints" \notin DOMAIN series
         THEN [env EXCEPT !.exc = "KeyError"]
         ELSE LET r == for_point(series.datapoints, 1, threshold, <<>>, <<>>) IN
              IF r.exc # "none"
              THEN [env EXCEPT !.bound = TRUE, !.below = r.below,
                               !.above = r.above, !.exc = r.exc]
              ELSE while_target([env EXCEPT !.bound = TRUE, !.below = r.below,
                                            !.above = r.above,
                                            !.target = env.target + 1],
                                threshold)

\* result_pair without the second return statement.
result_pair_unswapped(below, above, good_below_threshold) ==
    <<Len(below), Len(above)>>

\* The two return statements that follow the loop.
result_pair(below, above, good_below_threshold) ==
    IF good_below_threshold
    THEN <<Len(below), Len(above)>>
    ELSE <<Len(above), Len(below)>>

\* count_threshold_caught without IndexError.
count_threshold_caught_no_index == {"KeyError", "ZeroDivisionError"}

\* The exceptions the except clause of count_threshold names.
count_threshold_caught == {"IndexError", "KeyError", "ZeroDivisionError"}

\* The locals of count_threshold when the try body is left.
count_threshold_locals(response, threshold) ==
    LET env == while_target(count_threshold_entry(response), threshold) IN
    IF env.exc = "none" /\ ~env.bound
    THEN [env EXCEPT !.exc = "UnboundLocalError"]
    ELSE env

count_threshold(response, threshold, good_below_threshold) ==
    LET env == count_threshold_locals(response, threshold) IN
    IF env.exc = "none"
    THEN Return(result_pair(env.below, env.above, good_below_threshold))
    ELSE IF env.exc \in count_threshold_caught
    THEN Return(<<NO_DATA, NO_DATA>>)
    ELSE Raise(env.exc)

\* ----------------------------------------------------------------- count
CountValues == {None} \cup {Num(n) : n \in {0 - 3, 0, 5, 7}}

\* The data points with n values; the data point of size -1 lacks 'values'.
CountPointsWith(n) ==
    IF n < 0 THEN {[timestamp |-> 1612257900]}
    ELSE {[timestamp |-> 1612257900, values |-> vs] : vs \in SeqsOfLen(CountValues, n)}

\* The 'data' lists of a shape.
RECURSIVE CountDataOf(_)
CountDataOf(shape) ==
    IF Len(shape) = 0 THEN {<<>>}
    ELSE LET first == CountPointsWith(shape[1])
             rest == CountDataOf(Tail(shape))
         IN  {<<p>> \o d : p \in first, d \in rest}

\* What may follow the first series of a result.
OtherSeries ==
    {<<>>,
     <<[metric |-> "x.y.z"]>>,
     <<[metric |-> "x.y.z",
        data |-> <<[timestamp |-> 1612257900, values |-> <<Num(7)>>]>>]>>}

\* The responses that lack 'result', have an empty result, or whose first
\* series lacks 'data'.
CountResponsesWithoutData ==
    {[error |-> "no such metric"], [result |-> <<>>]}
        \cup {[result |-> <<[metric |-> "a.b.c"]>> \o o] : o \in OtherSeries}

\* The responses whose first series holds a 'data' list of a shape.
CountResponsesOf(shape) ==
    (IF Len(shape) = 0 THEN CountResponsesWithoutData ELSE {})
        \cup {[result |-> <<[metric |-> "a.b.c", data |-> d]>> \o o]
              : d \in CountDataOf(shape), o \in OtherSeries}

\* point_values without the test `point > 0`.
point_values_not_none(values) ==
    LET kept == SelectSeq(values, LAMBDA p : p # None)
    IN  [i \in 1..Len(kept) |-> kept[i].v]

\* The list comprehension over point['values'].
point_values(values) ==
    LET kept == SelectSeq(values, LAMBDA p : p # None /\ p.v > 0)
    IN  [i \in 1..Len(kept) |-> kept[i].v]

\* for point in datapoints, from the i-th data point on.
RECURSIVE for_data(_, _, _)
for_data(datapoints, i, values) ==
    IF i > Len(datapoints)
    THEN [exc |-> "none", values |-> values]
    ELSE LET point == datapoints[i] IN
         IF "values" \notin DOMAIN point
         THEN [exc |-> "KeyError", values |-> values]
         ELSE for_data(datapoints, i + 1, values \o point_values(point.values))

RECURSIVE sum(_)
sum(values) ==
    IF Len(values) = 0 THEN 0 ELSE values[1] + sum(Tail(values))

\* The exceptions the except clause of count names.
count_caught == {"IndexError", "KeyError"}

\* The locals of count when the try body is left.
count_locals(response) ==
    IF "result" \notin DOMAIN response
    THEN [response |-> response, values |-> <<>>, exc |-> "KeyError"]
    ELSE IF Len(response.result) = 0
    THEN [response |-> response, values |-> <<>>, exc |-> "IndexError"]
    ELSE IF "data" \notin DOMAIN response.result[1]
    THEN [response |-> response, values |-> <<>>, exc |-> "KeyError"]
    ELSE LET r == for_data(response.result[1].data, 1, <<>>) IN
         [response |-> response, values |-> r.values, exc |-> r.exc]

count(response) ==
    LET env == count_locals(response) IN
    IF env.exc = "none"
    THEN Return(sum(env.values))
    ELSE IF env.exc \in count_caught
    THEN Return(NO_DATA)
    ELSE Raise(env.exc)

\* ------------------------------------------------------- query, request
Digits == <<"0", "1", "2", "3", "4", "5", "6", "7", "8", "9">>
TwoDigits(n) == <<Digits[((n \div 10) % 10) + 1], Digits[(n % 10) + 1]>>
FourDigits(n) == TwoDigits(n \div 100) \o TwoDigits(n % 100)

\* datetime.fromtimestamp(ts), the local time zone being UTC: the civil
\* date of the day number ts \div 86400 and the time of day.
fromtimestamp(ts) ==
    LET z == (ts \div 86400) + 719468
        era == z \div 146097
        doe == z - era * 146097
        yoe == (doe - (doe \div 1460) + (doe \div 36524) - (doe \div 146096)) \div 365
        doy == doe - (365 * yoe + (yoe \div 4) - (yoe \div 100))
        mp == (5 * doy + 2) \div 153
        month == IF mp < 10 THEN mp + 3 ELSE mp - 9
        secs == ts % 86400
    IN  [year |-> yoe + era * 400 + (IF month <= 2 THEN 1 ELSE 0),
         month |-> month,
         day |-> doy - ((153 * mp + 2) \div 5) + 1,
         hour |-> secs \div 3600,
         minute |-> (secs % 3600) \div 60,
         second |-> secs % 60]

\* strftime("%H:%M_%Y%m%d"), a string being the sequence of its characters.
strftime(dt) ==
    TwoDigits(dt.hour) \o <<":">> \o TwoDigits(dt.minute) \o <<"_">>
        \o FourDigits(dt.year) \o TwoDigits(dt.month) \o TwoDigits(dt.day)

\* What the HTTP server, or the network, answers a request with.
Statuses == {200, 500}
AnswersWithoutJson ==
    {[kind |-> "ConnectionError"], [kind |-> "Timeout"]}
        \cup {[kind |-> "response", status |-> s, json |-> FALSE] : s \in Statuses}

\* The answers that carry a JSON body of a shape.
AnswersOf(shape) ==
    (IF Len(shape) = 0 THEN AnswersWithoutJson ELSE {})
        \cup {[kind |-> "response", status |-> s, json |-> TRUE, data |-> b]
              : s \in Statuses, b \in ResponsesOf(shape)}

\* request sending the request again when the first attempt fails.
request_retried(self, method, endpoint, metric, params, answer) ==
    LET url == [base |-> self.url, endpoint |-> endpoint, metric |-> metric,
                params |-> params]
        req == [method |-> method, url |-> url, verify |-> FALSE]
    IN  [client |-> self,
         sent |-> IF answer.kind # "response" THEN <<req, req>> ELSE <<req>>,
         result |-> IF answer.kind # "response"
                    THEN Raise(answer.kind)
                    ELSE IF ~answer.json
                    THEN Raise("JSONDecodeError")
                    ELSE Return(answer.data)]

\* request building the URL in self.url instead of the local url.
request_url_kept(self, method, endpoint, metric, params, answer) ==
    LET url == [base |-> self.url, endpoint |-> endpoint, metric |-> metric,
                params |-> params]
        req == [method |-> method, url |-> url, verify |-> FALSE]
    IN  [client |-> [self EXCEPT !.url = self.url \o <<"/">>],
         sent |-> <<req>>,
         result |-> IF answer.kind # "response"
                    THEN Raise(answer.kind)
                    ELSE IF ~answer.json
                    THEN Raise("JSONDecodeError")
                    ELSE Return(answer.data)]

\* GraphiteClient.request: the requests it sends, the client it leaves and
\* its result, the network answering with `answer`.  The body of a put or a
\* post is the undefined name post_data.  The parameters query passes are
\* all present, so that none is dropped from the URL.
request(self, method, endpoint, metric, params, answer) ==
    LET url == [base |-> self.url, endpoint |-> endpoint, metric |-> metric,
                params |-> params]
        req == [method |-> method, url |-> url, verify |-> FALSE]
    IN  IF method \in {"put", "post"}
        THEN [client |-> self, sent |-> <<>>, result |-> Raise("NameError")]
        ELSE [client |-> self,
              sent |-> <<req>>,
              result |-> IF answer.kind # "response"
                         THEN Raise(answer.kind)
                         ELSE IF ~answer.json
                         THEN Raise("JSONDecodeError")
                         ELSE Return(answer.data)]

\* GraphiteBackend.query
query(self, start, end, metric, answer) ==
    LET params == << <<"from", strftime(fromtimestamp(start))>>,
                     <<"until", strftime(fromtimestamp(end))>>,
                     <<"format", "json">> >>
    IN  request(self, "get", "render?target", metric, params, answer)

\* ------------------------------------------------------------- threshold
Timestamps == {1612257900, 1612310400}
Windows == {3600, 86400}
Measurements ==
    {[metric |-> "a.b.c", threshold |-> t] : t \in Thresholds}
        \cup {[metric |-> "a.b.c", threshold |-> t, good_below_threshold |-> g]
              : t \in Thresholds, g \in BOOLEAN}
SloConfigs == {[backend |-> [measurement |-> m]] : m \in Measurements}

\* threshold_locals with good_below_threshold defaulting to False.
threshold_locals_default_false(timestamp, window, slo_config) ==
    LET conf == slo_config.backend
        measurement == conf.measurement
    IN  [live |-> TRUE,
         start |-> timestamp - window,
         end |-> timestamp,
         metric |-> measurement.metric,
         threshold |-> measurement.threshold,
         good_below_threshold |->
             IF "good_below_threshold" \in DOMAIN measurement
             THEN measurement.good_below_threshold
             ELSE FALSE]

\* The locals of threshold before it queries.
threshold_locals(timestamp, window, slo_config) ==
    LET conf == slo_config.backend
        measurement == conf.measurement
    IN  [live |-> TRUE,
         start |-> timestamp - window,
         end |-> timestamp,
         metric |-> measurement.metric,
         threshold |-> measurement.threshold,
         good_below_threshold |->
             IF "good_below_threshold" \in DOMAIN measurement
             THEN measurement.good_below_threshold
             ELSE TRUE]

\* ------------------------------------------------------------------- state
VARIABLES
    client,     \* self.client of the GraphiteBackend
    pc,         \* "idle", "queried" (threshold holds the response), "done"
    args,       \* the running invocation and its arguments
    http,       \* the HTTP exchanges of the running invocation
    locals,     \* the locals of threshold
    frame,      \* the locals of count_threshold or count as its try body ends
    outcome,    \* how the invocation ended
    previous    \* how the invocation before it ended ("none": there was none)

vars == <<client, pc, args, http, locals, frame, outcome, previous>>

NoArgs == [op |-> "none"]
NoLocals == [live |-> FALSE]
NoFrame == [live |-> FALSE]

\* str.rstrip('/')
RECURSIVE rstrip(_)
rstrip(s) ==
    IF Len(s) > 0 /\ s[Len(s)] = "/" THEN rstrip(SubSeq(s, 1, Len(s) - 1)) ELSE s

\* GraphiteClient.__init__
GraphiteClient(api_url) == [url |-> rstrip(api_url)]

Init ==
    /\ client = GraphiteClient(<<"h", "t", "t", "p", ":", "/", "/", "g", "/">>)
    /\ pc = "idle"
    /\ args = NoArgs
    /\ http = <<>>
    /\ locals = NoLocals
    /\ frame = NoFrame
    /\ outcome = NoOutcome
    /\ previous = "none"

\* GraphiteBackend.count_threshold(response, threshold, good_below_threshold)
CountThreshold ==
    /\ pc = "idle"
    /\ \E shape \in Shapes(MaxPoints), threshold \in Thresholds,
          good_below_threshold \in BOOLEAN :
       \E response \in ResponsesOf(shape) :
        /\ args' = [op |-> "count_threshold", response |-> response,
                    threshold |-> threshold,
                    good_below_threshold |-> good_below_threshold]
        /\ frame' = [live |-> TRUE,
                     env |-> count_threshold_locals(response, threshold)]
        /\ outcome' = count_threshold(response, threshold, good_below_threshold)
    /\ pc' = "done"
    /\ UNCHANGED <<client, http, locals, previous>>

\* GraphiteBackend.count(response)
Count ==
    /\ pc = "idle"
    /\ \E shape \in Shapes(MaxPoints) : \E response \in CountResponsesOf(shape) :
        /\ args' = [op |-> "count", response |-> response]
        /\ frame' = [live |-> TRUE, env |-> count_locals(response)]
        /\ outcome' = count(response)
    /\ pc' = "done"
    /\ UNCHANGED <<client, http, locals, previous>>

\* GraphiteBackend.threshold up to the return of self.query: the one HTTP
\* round trip, which ends with the response or with an exception.
ThresholdQuery ==
    /\ pc = "idle"
    /\ \E timestamp \in Timestamps, window \in Windows,
          slo_config \in SloConfigs, shape \in Shapes(MaxBodyPoints) :
       \E answer \in AnswersOf(shape) :
        LET l == threshold_locals(timestamp, window, slo_config)
            r == query(client, l.start, l.end, l.metric, answer)
        IN  /\ args' = [op |-> "threshold", timestamp |-> timestamp,
                        window |-> window, slo_config |-> slo_config]
            /\ client' = r.client
            /\ http' = [i \in 1..Len(r.sent) |->
                            [request |-> r.sent[i], answer |-> answer]]
            /\ IF r.result.kind = "return"
               THEN /\ locals' = [response |-> r.result.value] @@ l
                    /\ outcome' = NoOutcome
                    /\ pc' = "queried"
               ELSE /\ locals' = l
                    /\ outcome' = r.result
                    /\ pc' = "done"
    /\ UNCHANGED <<frame, previous>>

\* GraphiteBackend.threshold from the return of self.query on.
ThresholdCount ==
    /\ pc = "queried"
    /\ frame' = [live |-> TRUE,
                 env |-> count_threshold_locals(locals.response, locals.threshold)]
    /\ outcome' = count_threshold(locals.response, locals.threshold,
                                  locals.good_below_threshold)
    /\ pc' = "done"
    /\ UNCHANGED <<client, args, http, locals, previous>>

\* How an invocation ended, as its caller sees it.
Ended(op, o) ==
    IF o.kind = "raise" THEN "raised"
    ELSE IF op = "count" /\ o.value = NO_DATA THEN "no_data"
    ELSE IF op # "count" /\ o.value = <<NO_DATA, NO_DATA>> THEN "no_data"
    ELSE "returned"

\* The caller takes the result; the frames of the invocation are gone.
Finish ==
    /\ pc = "done"
    /\ pc' = "idle"
    /\ args' = NoArgs
    /\ http' = <<>>
    /\ locals' = NoLocals
    /\ frame' = NoFrame
    /\ outcome' = NoOutcome
    /\ previous' = Ended(args.op, outcome)
    /\ UNCHANGED client

Next ==
    \/ CountThreshold
    \/ Count
    \/ ThresholdQuery
    \/ ThresholdCount
    \/ Finish

Spec == Init /\ [][Next]_vars

\* ------------------------------------------------------------ properties
\* What the properties say of a response, stated apart from the code.

\* Every series has its 'datapoints' and every sample its value element.
WellFormed(response) ==
    \A i \in 1..Len(response) :
        /\ "datapoints" \in DOMAIN response[i]
        /\ \A j \in 1..Len(response[i].datapoints) :
               Len(response[i].datapoints[j]) > 0

\* The places <<series, sample>> of a well-formed response.
Places(response) ==
    UNION {{<<i, j>> : j \in 1..Len(response[i].datapoints)} : i \in 1..Len(response)}

ValueAt(response, p) == response[p[1]].datapoints[p[2]][1]

\* The non-null samples of the whole response at most, or above, the threshold.
BelowInAll(response, threshold) ==
    Cardinality({p \in Places(response) :
        ValueAt(response, p) # None /\ ValueAt(response, p).v <= threshold})
AboveInAll(response, threshold) ==
    Cardinality({p \in Places(response) :
        ValueAt(response, p) # None /\ ValueAt(response, p).v > threshold})

\* How many of the elements of a sequence equal e.
RECURSIVE Occurrences(_, _)
Occurrences(seq, e) ==
    IF Len(seq) = 0 THEN 0
    ELSE (IF seq[1] = e THEN 1 ELSE 0) + Occurrences(Tail(seq), e)

SentinelPair == Return(<<NO_DATA, NO_DATA>>)

CountThresholdDone == pc = "done" /\ args.op = "count_threshold"
CountDone == pc = "done" /\ args.op = "count"
ThresholdDone == pc = "done" /\ args.op = "threshold"

\* C1: count_threshold of the empty response returns (NO_DATA, NO_DATA),
\* whatever the threshold and the direction, and does not raise.
C1_EmptyResponseYieldsSentinel ==
    (CountThresholdDone /\ Len(args.response) = 0) => outcome = SentinelPair

\* C2: with good_below_threshold true, count_threshold of a well-formed
\* response of one or more series returns the number of non-null samples of
\* ALL its series that are <= threshold, and the number that are > threshold.
C2_CountsOverAllSeries ==
    (/\ CountThresholdDone
     /\ args.good_below_threshold
     /\ Len(args.response) >= 1
     /\ WellFormed(args.response))
        => outcome = Return(<<BelowInAll(args.response, args.threshold),
                              AboveInAll(args.response, args.threshold)>>)

\* C3: when some series lacks 'datapoints' or some sample is the empty
\* sequence, wherever it is and whatever the other series hold,
\* count_threshold returns (NO_DATA, NO_DATA): no exception, no partial count.
C3_MalformedYieldsSentinel ==
    (CountThresholdDone /\ ~WellFormed(args.response)) => outcome = SentinelPair

\* A malformed second series follows a first series that holds a valid sample.
C3_Witness ==
    /\ CountThresholdDone
    /\ Len(args.response) = 2
    /\ "datapoints" \in DOMAIN args.response[1]
    /\ Len(args.response[1].datapoints) = 1
    /\ Len(args.response[1].datapoints[1]) > 0
    /\ args.response[1].datapoints[1][1] = Num(10)
    /\ "datapoints" \notin DOMAIN args.response[2]
    /\ outcome = SentinelPair

Swapped(o) ==
    IF o.kind = "return" THEN Return(<<o.value[2], o.value[1]>>) ELSE o

\* C5: count_threshold(response, threshold, false) is
\* count_threshold(response, threshold, true) with the two components
\* swapped, the sentinel pair being its own swap: the call just made, asked
\* in the other direction, gives the swapped result.
C5_DirectionSwaps ==
    CountThresholdDone =>
        count_threshold(args.response, args.threshold, ~args.good_below_threshold)
            = Swapped(outcome)

\* The samples [10, null, 60, 50] against the threshold 50 in the good-above
\* direction: good = 1, bad = 2.
C5_Witness ==
    /\ CountThresholdDone
    /\ ~args.good_below_threshold
    /\ args.threshold = 50
    /\ Len(args.response) = 1
    /\ "datapoints" \in DOMAIN args.response[1]
    /\ args.response[1].datapoints
           = << <<Num(10), 1612257900>>, <<None, 1612257900>>,
                <<Num(60), 1612257900>>, <<Num(50), 1612257900>> >>
    /\ outcome = Return(<<1, 2>>)

\* All the values of a 'data' list, in order.
RECURSIVE AllValues(_)
AllValues(data) ==
    IF Len(data) = 0 THEN <<>> ELSE data[1].values \o AllValues(Tail(data))

\* The sum of the strictly positive numbers of a sequence of values.
RECURSIVE PositiveTotal(_)
PositiveTotal(values) ==
    IF Len(values) = 0 THEN 0
    ELSE (IF values[1] # None /\ values[1].v > 0 THEN values[1].v ELSE 0)
             + PositiveTotal(Tail(values))

\* The response lacks 'result', or its result is empty, or its first series
\* lacks 'data', or a data point of that series lacks 'values'.
LacksCountField(response) ==
    \/ "result" \notin DOMAIN response
    \/ Len(response.result) = 0
    \/ "data" \notin DOMAIN response.result[1]
    \/ \E j \in 1..Len(response.result[1].data) :
           "values" \notin DOMAIN response.result[1].data[j]

\* C6: count returns the sum of the strictly positive non-null values of the
\* data points of the first series, and NO_DATA, without raising, when the
\* response lacks 'result', has an empty result, or a series or data point
\* lacks 'data' or 'values'.
C6_CountSumsPositive ==
    CountDone =>
        outcome = IF LacksCountField(args.response)
                  THEN Return(NO_DATA)
                  ELSE Return(PositiveTotal(AllValues(args.response.result[1].data)))

\* 5 + 7 = 12 beside a negative value, a second series following.
C6_Witness ==
    /\ CountDone
    /\ ~LacksCountField(args.response)
    /\ Len(args.response.result) = 2
    /\ Occurrences(AllValues(args.response.result[1].data), Num(0 - 3)) = 1
    /\ outcome = Return(12)

\* The HTTP call failed: no response came, or one with a status outside 2xx.
CallFailed(answer) ==
    answer.kind # "response" \/ answer.status < 200 \/ answer.status > 299

\* C7: when the HTTP call fails (connection error, timeout, status outside
\* 2xx), threshold ends with an exception: no count pair, no sentinel, and
\* the counting routine is not run on the body.
C7_FailedCallRaises ==
    (ThresholdDone /\ CallFailed(http[1].answer)) =>
        outcome.kind = "raise" /\ ~frame.live

\* C8: an invocation of threshold sends exactly one HTTP GET, before any
\* counting, and never sends another, whether the call failed or succeeded;
\* count_threshold and count send none.
C8_OneRequest ==
    /\ args.op = "threshold" =>
           /\ Len(http) = 1
           /\ http[1].request.method = "get"
    /\ args.op # "threshold" => Len(http) = 0
    /\ frame.live => pc = "done"

\* A threshold invocation whose request failed has ended.
C8_Witness ==
    /\ ThresholdDone
    /\ http[1].answer.kind = "ConnectionError"
    /\ Len(http) = 1
    /\ outcome = Raise("ConnectionError")

\* What strftime("%H:%M_%Y%m%d") gives, in UTC, for the window bounds.
Golden(ts) ==
    CASE ts = 1612257900 -> <<"0", "9", ":", "2", "5", "_", "2", "0", "2", "1", "0", "2", "0", "2">>
      [] ts = 1612254300 -> <<"0", "8", ":", "2", "5", "_", "2", "0", "2", "1", "0", "2", "0", "2">>
      [] ts = 1612171500 -> <<"0", "9", ":", "2", "5", "_", "2", "0", "2", "1", "0", "2", "0", "1">>
      [] ts = 1612310400 -> <<"0", "0", ":", "0", "0", "_", "2", "0", "2", "1", "0", "2", "0", "3">>
      [] ts = 1612306800 -> <<"2", "3", ":", "0", "0", "_", "2", "0", "2", "1", "0", "2", "0", "2">>
      [] ts = 1612224000 -> <<"0", "0", ":", "0", "0", "_", "2", "0", "2", "1", "0", "2", "0", "2">>

\* The direction a measurement configures, true when it gives none.
ConfiguredDirection(measurement) ==
    IF "good_below_threshold" \in DOMAIN measurement
    THEN measurement.good_below_threshold
    ELSE TRUE

\* C9: threshold queries the configured metric from timestamp - window until
\* timestamp, and its result is count_threshold of the response of the
\* query, the configured threshold and the configured direction, the
\* direction being true when the configuration gives none.
C9_ThresholdDelegates ==
    args.op = "threshold" =>
        LET measurement == args.slo_config.backend.measurement
            url == http[1].request.url
            answer == http[1].answer
        IN  /\ url.metric = measurement.metric
            /\ url.params[1] = <<"from", Golden(args.timestamp - args.window)>>
            /\ url.params[2] = <<"until", Golden(args.timestamp)>>
            /\ (pc = "done" /\ answer.kind = "response" /\ answer.json) =>
                   outcome = count_threshold(answer.data, measurement.threshold,
                                             ConfiguredDirection(measurement))

\* The configuration gives no direction and the one sample, below the
\* threshold, is counted as good.
C9_Witness ==
    /\ ThresholdDone
    /\ "good_below_threshold" \notin DOMAIN args.slo_config.backend.measurement
    /\ http[1].answer.kind = "response"
    /\ http[1].answer.status = 200
    /\ http[1].answer.json
    /\ args.window = 86400
    /\ outcome = Return(<<1, 0>>)

\* C10: no state crosses invocations.  Between two invocations the state of
\* the program is the state the construction left, whatever invocations
\* came before and however they ended, so that a call behaves as the same
\* call made first; the client of the backend is never changed; and
\* count_threshold and count leave their response as it was given.
C10_NoStateCrosses ==
    /\ client = GraphiteClient(<<"h", "t", "t", "p", ":", "/", "/", "g", "/">>)
    /\ pc = "idle" =>
           /\ args = NoArgs
           /\ http = <<>>
           /\ locals = NoLocals
           /\ frame = NoFrame
           /\ outcome = NoOutcome
    /\ (pc = "done" /\ args.op \in {"count_threshold", "count"}) =>
           frame.env.response = args.response
    /\ (pc = "done" /\ args.op = "threshold" /\ frame.live) =>
           frame.env.response = http[1].answer.data

\* A call counts a sample after an invocation that raised.
C10_Witness ==
    /\ previous = "raised"
    /\ CountThresholdDone
    /\ outcome = Return(<<1, 0>>)
    /\ frame.env.response = args.response
====
